---- MODULE Spec2Model ----
(***************************************************************************)
(* Model of game.cpp: the mouse-look camera, the per-frame player          *)
(* simulation (walking with sphere-vs-AABB rejection, jumping, gravity,    *)
(* ground clamp), the cube rotation keys and the frame loop.               *)
(*                                                                         *)
(* Number representation (the source uses float32):                        *)
(*   lengths     integers, unit 1/180 world unit   (0.6 = 108, 0.35 = 63)  *)
(*   time        integers, unit 1/60 s                                     *)
(*   velocities  integers, unit (1/180 world unit) per second              *)
(*   angles      integers, unit 0.1 degree         (89 degrees = 890)      *)
(*   directions  integers, unit 1/10000            (unit vector = 10000)   *)
(*   rotations   integers, unit 1/1000 rad                                 *)
(*   cursor      integers, unit 1 pixel                                    *)
(* Products and quotients are rounded to the nearest unit, as float        *)
(* arithmetic rounds to the nearest representable value.                   *)
(***************************************************************************)
EXTENDS Integers, Sequences, FiniteSets, TLC

VARIABLES
    pc,                 \* position in main: "frame" (loop test), "render" (draw calls), "events" (inside glfwPollEvents), "exit"
    keys,               \* keys GLFW reports pressed (state read by glfwGetKey)
    windowShouldClose,  \* the window's close flag
    lastX, lastY, firstMouse, yaw, pitch,
    cameraPos, cameraFront,
    deltaTime, lastFrame,
    velocityY, isGrounded,
    cubeRotation,
    collided,           \* the loop body's local: the candidate position hit a cube
    window,             \* main's window: "null" (not created), "open", "destroyed"
    framebuffer,        \* <<width, height>> that glfwGetFramebufferSize reports
    glObjects,          \* names of the GL objects generated and not deleted, oldest first
    released,           \* names of the GL objects deleted, in the order of deletion
    cerr,               \* the diagnostics written to std::cerr, oldest first
    mainReturn          \* <<>> while main runs, <<code>> once it has returned

vars == <<pc, keys, windowShouldClose, lastX, lastY, firstMouse, yaw, pitch,
          cameraPos, cameraFront, deltaTime, lastFrame, velocityY, isGrounded,
          cubeRotation, collided, window, framebuffer, glObjects, released,
          cerr, mainReturn>>

\* the state of the window, the GL objects and the process
lifeVars == <<window, framebuffer, glObjects, released, cerr, mainReturn>>

----------------------------------------------------------------------------
(* Units *)

LenScale == 180
TimeScale == 60
DirScale == 10000

\* a / b rounded to the nearest integer, halves away from zero (b > 0)
RoundDiv(a, b) ==
    IF a >= 0 THEN (2 * a + b) \div (2 * b) ELSE -((2 * (-a) + b) \div (2 * b))

\* Newton's iteration for the integer part of the square root of n > 0
RECURSIVE SqrtIter(_, _)
RECURSIVE SqrtStep(_, _, _)
SqrtStep(n, r, nxt) == IF nxt >= r THEN r ELSE SqrtIter(n, nxt)
SqrtIter(n, r) == SqrtStep(n, r, (r + n \div r) \div 2)

\* f, the integer part of the square root of n, rounded to the nearest integer
SqrtRound(n, f) == IF n - f * f > f THEN f + 1 ELSE f

\* std::sqrt on a non-negative integer, rounded to the nearest integer
Sqrt(n) == IF n <= 0 THEN 0 ELSE SqrtRound(n, SqrtIter(n, n))

\* sin of 0..90 whole degrees, in 1/10000
SinTable ==
    << 0, 175, 349, 523, 698, 872, 1045, 1219, 1392, 1564,
       1736, 1908, 2079, 2250, 2419, 2588, 2756, 2924, 3090, 3256,
       3420, 3584, 3746, 3907, 4067, 4226, 4384, 4540, 4695, 4848,
       5000, 5150, 5299, 5446, 5592, 5736, 5878, 6018, 6157, 6293,
       6428, 6561, 6691, 6820, 6947, 7071, 7193, 7314, 7431, 7547,
       7660, 7771, 7880, 7986, 8090, 8192, 8290, 8387, 8480, 8572,
       8660, 8746, 8829, 8910, 8988, 9063, 9135, 9205, 9272, 9336,
       9397, 9455, 9511, 9563, 9613, 9659, 9703, 9744, 9781, 9816,
       9848, 9877, 9903, 9925, 9945, 9962, 9976, 9986, 9994, 9998,
       10000 >>

\* sin of an angle of 0..900 tenths of a degree (linear between whole degrees)
SinQuadrant(a) ==
    LET d == a \div 10
        f == a % 10
    IN  IF f = 0 THEN SinTable[d + 1]
        ELSE RoundDiv(SinTable[d + 1] * (10 - f) + SinTable[d + 2] * f, 10)

\* std::sin of an angle in tenths of a degree, in 1/10000
Sin(a) ==
    LET r == a % 3600
    IN  IF r <= 900 THEN SinQuadrant(r)
        ELSE IF r <= 1800 THEN SinQuadrant(1800 - r)
        ELSE IF r <= 2700 THEN -SinQuadrant(r - 1800)
        ELSE -SinQuadrant(3600 - r)

\* std::cos of an angle in tenths of a degree, in 1/10000
Cos(a) == Sin(a + 900)

----------------------------------------------------------------------------
(* Math kernel *)

Vec3(x, y, z) == [x |-> x, y |-> y, z |-> z]

clamp(v, minV, maxV) == IF v < minV THEN minV ELSE IF v > maxV THEN maxV ELSE v

add(a, b) == Vec3(a.x + b.x, a.y + b.y, a.z + b.z)
sub(a, b) == Vec3(a.x - b.x, a.y - b.y, a.z - b.z)
\* raw products: the caller divides by the scale of the factors
dot(a, b) == a.x * b.x + a.y * b.y + a.z * b.z
\* cross product of two direction vectors, in 1/10000
cross(a, b) ==
    Vec3(RoundDiv(a.y * b.z - a.z * b.y, DirScale),
         RoundDiv(a.z * b.x - a.x * b.z, DirScale),
         RoundDiv(a.x * b.y - a.y * b.x, DirScale))

\* normalize of a direction vector in 1/10000; len <= 0.00001 gives zero
divideByLength(v, len) ==
    IF len * 100000 <= DirScale THEN Vec3(0, 0, 0)
    ELSE Vec3(RoundDiv(v.x * DirScale, len),
              RoundDiv(v.y * DirScale, len),
              RoundDiv(v.z * DirScale, len))

normalize(v) == divideByLength(v, Sqrt(dot(v, v)))

\* center and the box corners in length units; radius in length units
lengthSquared(diff) == dot(diff, diff)

sphereAabbCollision(center, radius, min, max) ==
    LET x == clamp(center.x, min.x, max.x)
        y == clamp(center.y, min.y, max.y)
        z == clamp(center.z, min.z, max.z)
        closest == Vec3(x, y, z)
    IN  lengthSquared(sub(center, closest)) < radius * radius

----------------------------------------------------------------------------
(* Program constants, in the units above *)

gravity == -3600            \* -20.0 world units / s^2
jumpSpeed == 1440           \* 8.0 world units / s
playerHeight == 288         \* 1.6
groundLevel == -180         \* -1.0
cameraSpeed == 540          \* 3.0 world units / s
cameraRadius == 63          \* 0.35
cubeHalfExtent == 108       \* 0.6
cubeRotationSpeed == 1800   \* 1.8 rad / s
sensitivity == 1            \* 0.1 degree per pixel
pitchLimit == 890           \* 89.0 degrees

cameraUp == Vec3(0, DirScale, 0)

cubePositions ==
    << Vec3(0, 0, 0),
       Vec3(360, 0, -540),
       Vec3(-360, 0, -720),
       Vec3(0, 270, -360),
       Vec3(630, 0, 270),
       Vec3(-630, 0, 360),
       Vec3(270, 0, 630),
       Vec3(-270, 0, 540),
       Vec3(720, 0, -900),
       Vec3(-720, 0, -990) >>

AllKeys == {"W", "A", "S", "D", "SPACE", "ESCAPE", "Q", "E", "R", "F", "Z", "C"}

----------------------------------------------------------------------------
(* mouseCallback *)

\* front vector for yaw and pitch given in tenths of a degree
frontOf(y, p) ==
    normalize(Vec3(RoundDiv(Cos(y) * Cos(p), DirScale),
                   Sin(p),
                   RoundDiv(Sin(y) * Cos(p), DirScale)))

\* mutant: only the upper pitch limit is enforced
clampPitchUpperOnly(p) == IF p > pitchLimit THEN pitchLimit ELSE p

clampPitch(p) == clamp(p, -pitchLimit, pitchLimit)

\* mutant: the first event is measured against the startup cursor position
baselineUngated(first, last, pos) == last

\* the cursor coordinate an event is measured against: the first event seeds it
baseline(first, last, pos) == IF first THEN pos ELSE last

MouseCallback(xpos, ypos) ==
    /\ pc = "events"
    /\ LET lx == baseline(firstMouse, lastX, xpos)
           ly == baseline(firstMouse, lastY, ypos)
           xoffset == (xpos - lx) * sensitivity
           yoffset == (ly - ypos) * sensitivity
           newYaw == yaw + xoffset
           newPitch == clampPitch(pitch + yoffset)
       IN  /\ firstMouse' = FALSE
           /\ lastX' = xpos
           /\ lastY' = ypos
           /\ yaw' = newYaw
           /\ pitch' = newPitch
           /\ cameraFront' = frontOf(newYaw, newPitch)
    /\ UNCHANGED <<pc, keys, windowShouldClose, cameraPos, deltaTime, lastFrame,
                   velocityY, isGrounded, cubeRotation, collided>>
    /\ UNCHANGED lifeVars

----------------------------------------------------------------------------
(* processInput *)

rotationStep(dt) == RoundDiv(cubeRotationSpeed * dt, TimeScale)

processInputRotation(k, rot, dt) ==
    LET d == rotationStep(dt)
        on(key) == IF key \in k THEN d ELSE 0
    IN  Vec3(rot.x - on("R") + on("F"),
             rot.y - on("Q") + on("E"),
             rot.z - on("Z") + on("C"))

\* mutant: the Escape key is not looked at
processInputCloseNoEscape(k, close) == close

processInputClose(k, close) == close \/ "ESCAPE" \in k

----------------------------------------------------------------------------
(* Player simulation: the loop body between processInput and the render *)

\* mul(v, s) for a direction v (1/10000) and s = speed * deltaTime
mul(v, s) ==
    Vec3(RoundDiv(v.x * s, DirScale * TimeScale),
         RoundDiv(v.y * s, DirScale * TimeScale),
         RoundDiv(v.z * s, DirScale * TimeScale))

forwardOf(front) == normalize(Vec3(front.x, 0, front.z))
strafeRightOf(front) == normalize(cross(forwardOf(front), cameraUp))

addIf(pressed, m, v) == IF pressed THEN add(m, v) ELSE m

\* mutant: the opposite key adds the direction as well
subIfAdds(pressed, m, v) == IF pressed THEN add(m, v) ELSE m

subIf(pressed, m, v) == IF pressed THEN sub(m, v) ELSE m

\* the WASD vector accumulated from forward and strafeRight
accumulate(k, forward, strafeRight) ==
    addIf("D" \in k,
          subIf("A" \in k,
                subIf("S" \in k,
                      addIf("W" \in k, Vec3(0, 0, 0), forward),
                      forward),
                strafeRight),
          strafeRight)

\* the accumulated WASD vector (before normalisation)
movementOf(k, front) == accumulate(k, forwardOf(front), strafeRightOf(front))

cubeMin(pos) == sub(pos, Vec3(cubeHalfExtent, cubeHalfExtent, cubeHalfExtent))
cubeMax(pos) == add(pos, Vec3(cubeHalfExtent, cubeHalfExtent, cubeHalfExtent))

\* mutant: the collision loop starts at the second cube
collidedAtSkippingFirst(nextPos) ==
    \E i \in 2..Len(cubePositions) :
        sphereAabbCollision(nextPos, cameraRadius,
                            cubeMin(cubePositions[i]), cubeMax(cubePositions[i]))

collidedAt(nextPos) ==
    \E i \in 1..Len(cubePositions) :
        sphereAabbCollision(nextPos, cameraRadius,
                            cubeMin(cubePositions[i]), cubeMax(cubePositions[i]))

\* the candidate position of a step along movement
nextPosOf(pos, movement, dt) ==
    add(pos, mul(normalize(movement), cameraSpeed * dt))

\* the local flag `collided` after the collision loop (false when no step is tried)
collisionFlag(pos, movement, dt) ==
    dot(movement, movement) > 0 /\ collidedAt(nextPosOf(pos, movement, dt))

\* mutant: a blocked step slides along whichever axis is free
acceptOrRejectSliding(pos, nextPos) ==
    IF ~collidedAt(nextPos) THEN nextPos
    ELSE IF ~collidedAt(Vec3(nextPos.x, pos.y, pos.z)) THEN Vec3(nextPos.x, pos.y, pos.z)
    ELSE IF ~collidedAt(Vec3(pos.x, pos.y, nextPos.z)) THEN Vec3(pos.x, pos.y, nextPos.z)
    ELSE pos

acceptOrReject(pos, nextPos) == IF collidedAt(nextPos) THEN pos ELSE nextPos

applyMovement(pos, movement, dt) ==
    IF dot(movement, movement) > 0
    THEN acceptOrReject(pos, nextPosOf(pos, movement, dt))
    ELSE pos

\* camera position after the horizontal stage
horizontalStage(pos, k, front, dt) == applyMovement(pos, movementOf(k, front), dt)

\* mutant: the jump ignores the grounded flag
jumpGateAnywhere(k, grounded) == "SPACE" \in k

jumpGate(k, grounded) == "SPACE" \in k /\ grounded

\* mutant: the ground clamp keeps the falling velocity
groundClampKeepsVelocity(pos, y, v) ==
    IF y - playerHeight <= groundLevel
    THEN [cameraPos |-> Vec3(pos.x, groundLevel + playerHeight, pos.z),
          velocityY |-> v, isGrounded |-> TRUE]
    ELSE [cameraPos |-> Vec3(pos.x, y, pos.z),
          velocityY |-> v, isGrounded |-> FALSE]

\* mutant: the ground test looks at the camera height, not at the feet
groundClampAtEyeLevel(pos, y, v) ==
    IF y <= groundLevel
    THEN [cameraPos |-> Vec3(pos.x, groundLevel + playerHeight, pos.z),
          velocityY |-> 0, isGrounded |-> TRUE]
    ELSE [cameraPos |-> Vec3(pos.x, y, pos.z),
          velocityY |-> v, isGrounded |-> FALSE]

\* ground collision for the integrated height y and velocity v
groundClamp(pos, y, v) ==
    IF y - playerHeight <= groundLevel
    THEN [cameraPos |-> Vec3(pos.x, groundLevel + playerHeight, pos.z),
          velocityY |-> 0, isGrounded |-> TRUE]
    ELSE [cameraPos |-> Vec3(pos.x, y, pos.z),
          velocityY |-> v, isGrounded |-> FALSE]

\* vertical move with the velocity v that gravity has already changed
applyVelocity(pos, v, dt) == groundClamp(pos, pos.y + RoundDiv(v * dt, TimeScale), v)

\* mutant: gravity added once per frame, whatever the frame time
applyGravityPerFrame(v, dt) == v + RoundDiv(gravity, TimeScale)

applyGravity(v, dt) == v + RoundDiv(gravity * dt, TimeScale)

\* mutant: the camera is moved with the velocity of the previous frame and
\* gravity is applied afterwards
verticalStageMoveFirst(pos, vel, grounded, k, dt) ==
    groundClamp(pos,
                pos.y + RoundDiv((IF jumpGate(k, grounded) THEN jumpSpeed ELSE vel) * dt,
                                 TimeScale),
                applyGravity(IF jumpGate(k, grounded) THEN jumpSpeed ELSE vel, dt))

\* jump gate, gravity, vertical move and ground clamp
verticalStage(pos, vel, grounded, k, dt) ==
    applyVelocity(pos,
                  applyGravity(IF jumpGate(k, grounded) THEN jumpSpeed ELSE vel, dt),
                  dt)

simulatePlayer(pos, vel, grounded, k, front, dt) ==
    verticalStage(horizontalStage(pos, k, front, dt), vel, grounded, k, dt)

----------------------------------------------------------------------------
(* The frame loop *)

\* the GL objects main generates, in the order of the glGen* and createProgram
\* calls
constructionOrder ==
    << "VAO", "VBO", "groundVAO", "groundVBO", "program", "skyboxProgram",
       "skyboxVAO", "skyboxVBO", "skyboxTexture", "texture" >>

\* the statics and main's loop locals as initialised, with the key state k
\* and the grounded flag g
Statics(k, g) ==
    /\ keys = k
    /\ windowShouldClose = FALSE
    /\ lastX = 400
    /\ lastY = 300
    /\ firstMouse = TRUE
    /\ yaw = -900
    /\ pitch = 0
    /\ cameraPos = Vec3(0, 108, 720)
    /\ cameraFront = Vec3(0, 0, -DirScale)
    /\ deltaTime = 0
    /\ lastFrame = 0
    /\ velocityY = 0
    /\ isGrounded = g
    /\ cubeRotation = Vec3(0, 0, 0)
    /\ collided = FALSE

\* the state at the loop test after a clean initialisation
Startup(k, g) ==
    /\ pc = "frame"
    /\ window = "open"
    /\ framebuffer = <<1600, 900>>
    /\ glObjects = constructionOrder
    /\ released = <<>>
    /\ cerr = <<>>
    /\ mainReturn = <<>>
    /\ Statics(k, g)

Init == Startup({}, FALSE)

\* the statics and locals the loop body reads and writes
current ==
    [windowShouldClose |-> windowShouldClose, cubeRotation |-> cubeRotation,
     cameraPos |-> cameraPos, cameraFront |-> cameraFront,
     velocityY |-> velocityY, isGrounded |-> isGrounded,
     yaw |-> yaw, pitch |-> pitch, firstMouse |-> firstMouse]

\* processInput and the player simulation of one pass, for pressed keys k and
\* frame time dt
withPlayer(s, k, dt, p) ==
    [s EXCEPT !.windowShouldClose = processInputClose(k, @),
              !.cubeRotation = processInputRotation(k, @, dt),
              !.cameraPos = p.cameraPos,
              !.velocityY = p.velocityY,
              !.isGrounded = p.isGrounded]

loopBody(s, k, dt) ==
    withPlayer(s, k, dt,
               simulatePlayer(s.cameraPos, s.velocityY, s.isGrounded, k,
                              s.cameraFront, dt))

\* the loop body's writes
Store(r) ==
    /\ windowShouldClose' = r.windowShouldClose
    /\ cubeRotation' = r.cubeRotation
    /\ cameraPos' = r.cameraPos
    /\ velocityY' = r.velocityY
    /\ isGrounded' = r.isGrounded

\* one pass of the loop body up to the ground clamp; currentFrame is glfwGetTime()
Tick(currentFrame) ==
    /\ pc = "frame"
    /\ ~windowShouldClose
    /\ currentFrame >= lastFrame
    /\ deltaTime' = currentFrame - lastFrame
    /\ lastFrame' = currentFrame
    /\ Store(loopBody(current, keys, currentFrame - lastFrame))
    /\ collided' = collisionFlag(cameraPos, movementOf(keys, cameraFront),
                                 currentFrame - lastFrame)
    /\ pc' = "render"
    /\ UNCHANGED <<keys, lastX, lastY, firstMouse, yaw, pitch, cameraFront>>
    /\ UNCHANGED lifeVars

\* the draw passes and glfwSwapBuffers; the pass's locals are dead afterwards
RenderFrame ==
    /\ pc = "render"
    /\ pc' = "events"
    /\ collided' = FALSE
    /\ UNCHANGED <<keys, windowShouldClose, lastX, lastY, firstMouse, yaw, pitch,
                   cameraPos, cameraFront, deltaTime, lastFrame, velocityY,
                   isGrounded, cubeRotation>>
    /\ UNCHANGED lifeVars

\* glfwPollEvents updates the key state GLFW caches
KeyEvent(k) ==
    /\ pc = "events"
    /\ k # keys
    /\ keys' = k
    /\ UNCHANGED <<pc, windowShouldClose, lastX, lastY, firstMouse, yaw, pitch,
                   cameraPos, cameraFront, deltaTime, lastFrame, velocityY,
                   isGrounded, cubeRotation, collided>>
    /\ UNCHANGED lifeVars

\* glfwPollEvents returns; control goes back to the loop test
PollEventsReturn ==
    /\ pc = "events"
    /\ pc' = "frame"
    /\ UNCHANGED <<keys, windowShouldClose, lastX, lastY, firstMouse, yaw, pitch,
                   cameraPos, cameraFront, deltaTime, lastFrame, velocityY,
                   isGrounded, cubeRotation, collided>>
    /\ UNCHANGED lifeVars

\* the loop test fails: main leaves the loop
LoopExit ==
    /\ pc = "frame"
    /\ windowShouldClose
    /\ pc' = "exit"
    /\ UNCHANGED <<keys, windowShouldClose, lastX, lastY, firstMouse, yaw, pitch,
                   cameraPos, cameraFront, deltaTime, lastFrame, velocityY,
                   isGrounded, cubeRotation, collided>>
    /\ UNCHANGED lifeVars

\* the program's steps with frame times from `times` up to the clock value
\* maxTime, key states from keySets and cursor positions from cursors
Step(times, maxTime, keySets, cursors) ==
    \/ \E dt \in times : lastFrame + dt <= maxTime /\ Tick(lastFrame + dt)
    \/ RenderFrame
    \/ \E k \in keySets : KeyEvent(k)
    \/ \E p \in cursors : MouseCallback(p[1], p[2])
    \/ PollEventsReturn
    \/ LoopExit

----------------------------------------------------------------------------
(* Mat4 and the model matrix of the cubes.  A Mat4 is the sequence of its  *)
(* 16 floats, m[k] at position k + 1, in units of 1/10000; the matrices    *)
(* are uploaded with transpose = GL_FALSE, so m[c * 4 + r] is the entry    *)
(* of row r and column c.                                                  *)

identity == [k \in 1..16 |-> IF k \in {1, 6, 11, 16} THEN DirScale ELSE 0]

\* the entry r.m[col + row * 4] of multiply(a, b)
multiplyEntry(a, b, row, col) ==
    RoundDiv(a[0 + row * 4 + 1] * b[col + 0 * 4 + 1]
               + a[1 + row * 4 + 1] * b[col + 1 * 4 + 1]
               + a[2 + row * 4 + 1] * b[col + 2 * 4 + 1]
               + a[3 + row * 4 + 1] * b[col + 3 * 4 + 1], DirScale)

multiply(a, b) ==
    [k \in 1..16 |-> multiplyEntry(a, b, (k - 1) \div 4, (k - 1) % 4)]

\* a length (1/180 world unit) as a matrix entry
lengthEntry(len) == RoundDiv(len * DirScale, LenScale)

translate(t) ==
    [identity EXCEPT ![12 + 1] = lengthEntry(t.x),
                     ![13 + 1] = lengthEntry(t.y),
                     ![14 + 1] = lengthEntry(t.z)]

\* an angle in 1/1000 rad as tenths of a degree
degreesOf(radians) == RoundDiv(radians * 18000, 31416)

rotateX(radians) ==
    [identity EXCEPT ![5 + 1] = Cos(degreesOf(radians)),
                     ![9 + 1] = -Sin(degreesOf(radians)),
                     ![6 + 1] = Sin(degreesOf(radians)),
                     ![10 + 1] = Cos(degreesOf(radians))]

rotateY(radians) ==
    [identity EXCEPT ![0 + 1] = Cos(degreesOf(radians)),
                     ![8 + 1] = Sin(degreesOf(radians)),
                     ![2 + 1] = -Sin(degreesOf(radians)),
                     ![10 + 1] = Cos(degreesOf(radians))]

rotateZ(radians) ==
    [identity EXCEPT ![0 + 1] = Cos(degreesOf(radians)),
                     ![4 + 1] = -Sin(degreesOf(radians)),
                     ![1 + 1] = Sin(degreesOf(radians)),
                     ![5 + 1] = Cos(degreesOf(radians))]

\* the per-cube offset of the Y rotation, 0.6 rad, in 1/1000 rad
cubeYawStep == 600

\* the matrix uploaded as uModel for cube i (from 0) with cube rotation rot
modelMatrix(i, rot) ==
    multiply(translate(cubePositions[i + 1]),
             multiply(rotateY(rot.y + i * cubeYawStep),
                      multiply(rotateX(rot.x), rotateZ(rot.z))))

----------------------------------------------------------------------------
(* The camera matrices of the render stage: the arguments of perspective   *)
(* and lookAt                                                              *)

\* the arguments of the perspective call: 45 degrees in 1/1000 rad, 0.1 and
\* 140 in 1/10000
fovRadians == 785
nearZ == 1000
farZ == 1400000

\* the float quotient width / height of two ints: division by zero gives an
\* infinity, 0 / 0 a NaN; value is in 1/10000
aspectOf(width, height) ==
    IF height # 0
    THEN [nan |-> FALSE, inf |-> FALSE, value |-> RoundDiv(width * DirScale, height)]
    ELSE [nan |-> width = 0, inf |-> width # 0, value |-> 0]

\* the f of lookAt before normalisation: center - eye for the call
\* lookAt(cameraPos, add(cameraPos, cameraFront), cameraUp), in 1/10000
lookDirection(pos, front) ==
    sub(add(Vec3(lengthEntry(pos.x), lengthEntry(pos.y), lengthEntry(pos.z)),
            front),
        Vec3(lengthEntry(pos.x), lengthEntry(pos.y), lengthEntry(pos.z)))

----------------------------------------------------------------------------
(* main: initialisation, window events and shutdown *)

\* the variables of the frame loop other than pc
loopVars == <<keys, windowShouldClose, lastX, lastY, firstMouse, yaw, pitch,
              cameraPos, cameraFront, deltaTime, lastFrame, velocityY,
              isGrounded, cubeRotation, collided>>

\* the state when main is entered
ProgramStart ==
    /\ pc = "glfwInit"
    /\ window = "null"
    /\ framebuffer = <<0, 0>>
    /\ glObjects = <<>>
    /\ released = <<>>
    /\ cerr = <<>>
    /\ mainReturn = <<>>
    /\ Statics({}, FALSE)

\* if (!glfwInit()) return -1;
GlfwInit(ok) ==
    /\ pc = "glfwInit"
    /\ pc' = IF ok THEN "createWindow" ELSE "done"
    /\ mainReturn' = IF ok THEN mainReturn ELSE <<-1>>
    /\ UNCHANGED <<window, framebuffer, glObjects, released, cerr>>
    /\ UNCHANGED loopVars

\* glfwCreateWindow; on failure glfwTerminate and return -1
CreateWindow(ok) ==
    /\ pc = "createWindow"
    /\ pc' = IF ok THEN "glewInit" ELSE "done"
    /\ window' = IF ok THEN "open" ELSE window
    /\ framebuffer' = IF ok THEN <<1600, 900>> ELSE framebuffer
    /\ mainReturn' = IF ok THEN mainReturn ELSE <<-1>>
    /\ UNCHANGED <<glObjects, released, cerr>>
    /\ UNCHANGED loopVars

\* glewInit; on failure a diagnostic, glfwTerminate (which destroys the
\* window) and return -1
GlewInit(ok) ==
    /\ pc = "glewInit"
    /\ pc' = IF ok THEN "setup" ELSE "done"
    /\ cerr' = IF ok THEN cerr ELSE Append(cerr, "Failed to initialize GLEW.")
    /\ window' = IF ok THEN window ELSE "destroyed"
    /\ mainReturn' = IF ok THEN mainReturn ELSE <<-1>>
    /\ UNCHANGED <<framebuffer, glObjects, released>>
    /\ UNCHANGED loopVars

\* compileShader: a failed compilation is logged, the shader is returned
compileShader(log, ok) ==
    IF ok THEN log ELSE Append(log, "Shader compile error")

\* the link status check of createProgram: a failed link is logged
linkProgram(log, ok) ==
    IF ok THEN log ELSE Append(log, "Program link error")

\* createProgram: both shaders are compiled, the program is linked (which
\* fails when a shader did not compile) and returned whatever the outcome
createProgram(log, vsOk, fsOk, linkOk) ==
    linkProgram(compileShader(compileShader(log, vsOk), fsOk),
                vsOk /\ fsOk /\ linkOk)

isProgram(name) == name \in {"program", "skyboxProgram"}

\* the next glGen* or createProgram call of main
Generate(name, vsOk, fsOk, linkOk) ==
    /\ pc = "setup"
    /\ name = constructionOrder[Len(glObjects) + 1]
    /\ glObjects' = Append(glObjects, name)
    /\ cerr' = IF isProgram(name) THEN createProgram(cerr, vsOk, fsOk, linkOk)
               ELSE cerr
    /\ pc' = IF Len(glObjects) + 1 = Len(constructionOrder) THEN "frame"
             ELSE "setup"
    /\ UNCHANGED <<window, framebuffer, released, mainReturn>>
    /\ UNCHANGED loopVars

\* glfwPollEvents delivers the window's close request
CloseEvent ==
    /\ pc = "events"
    /\ ~windowShouldClose
    /\ windowShouldClose' = TRUE
    /\ UNCHANGED <<pc, keys, lastX, lastY, firstMouse, yaw, pitch, cameraPos,
                   cameraFront, deltaTime, lastFrame, velocityY, isGrounded,
                   cubeRotation, collided>>
    /\ UNCHANGED lifeVars

\* glfwPollEvents processes a change of the framebuffer size
FramebufferSizeEvent(w, h) ==
    /\ pc = "events"
    /\ framebuffer # <<w, h>>
    /\ framebuffer' = <<w, h>>
    /\ UNCHANGED <<pc, window, glObjects, released, cerr, mainReturn>>
    /\ UNCHANGED loopVars

\* the glDelete* calls after the loop, in their order
deletionOrder ==
    << "groundVAO", "groundVBO", "VAO", "VBO", "skyboxVAO", "skyboxVBO",
       "program", "skyboxProgram", "texture", "skyboxTexture" >>

remove(objs, name) == SelectSeq(objs, LAMBDA o : o # name)

\* the next glDelete* call
DeleteNext ==
    /\ pc = "exit"
    /\ Len(released) < Len(deletionOrder)
    /\ glObjects' = remove(glObjects, deletionOrder[Len(released) + 1])
    /\ released' = Append(released, deletionOrder[Len(released) + 1])
    /\ UNCHANGED <<pc, window, framebuffer, cerr, mainReturn>>
    /\ UNCHANGED loopVars

\* glfwTerminate, which destroys the window, and return 0
Terminate ==
    /\ pc = "exit"
    /\ Len(released) = Len(deletionOrder)
    /\ window' = "destroyed"
    /\ pc' = "done"
    /\ mainReturn' = <<0>>
    /\ UNCHANGED <<framebuffer, glObjects, released, cerr>>
    /\ UNCHANGED loopVars

----------------------------------------------------------------------------
(* Spec: walking and jumping among the cubes, from startup *)

MaxDtSteps == 2
MaxTime == 12

\* frame times offered by the clock: 0, 1/20 s, 2/20 s, ...
FrameTimes == { 3 * n : n \in 0..MaxDtSteps }

KeySets ==
    { {}, {"D", "SPACE"}, {"W", "S"}, {"W", "D"}, {"ESCAPE"} }

CursorPositions == { <<400, 300>>, <<850, 300>> }

Next == Step(FrameTimes, MaxTime, KeySets, CursorPositions)

Spec == Init /\ [][Next]_vars

----------------------------------------------------------------------------
(* Claims checked under Spec *)

\* squared XZ distance from p to the footprint [c-0.6, c+0.6] of the cube at c
footprintDistSq(p, c) ==
    LET dx == p.x - clamp(p.x, c.x - cubeHalfExtent, c.x + cubeHalfExtent)
        dz == p.z - clamp(p.z, c.z - cubeHalfExtent, c.z + cubeHalfExtent)
    IN  dx * dx + dz * dz

\* C1: from the startup position, after any ticks with any keys and mouse
\* input, the XZ projection of the camera position is at distance at least
\* playerRadius from the XZ footprint of every obstacle cube.
C1_FootprintClearance ==
    \A i \in 1..Len(cubePositions) :
        footprintDistSq(cameraPos, cubePositions[i]) >= cameraRadius * cameraRadius

\* squared distance from c to its clamped point in the box of the cube at q
boxDistSq(c, q) ==
    LET dx == c.x - clamp(c.x, q.x - cubeHalfExtent, q.x + cubeHalfExtent)
        dy == c.y - clamp(c.y, q.y - cubeHalfExtent, q.y + cubeHalfExtent)
        dz == c.z - clamp(c.z, q.z - cubeHalfExtent, q.z + cubeHalfExtent)
    IN  dx * dx + dy * dy + dz * dz

overlapsAnyCube(c) ==
    \E i \in 1..Len(cubePositions) :
        boxDistSq(c, cubePositions[i]) < cameraRadius * cameraRadius

\* a pass of the loop body is taken in this step
TickStep == pc = "frame" /\ pc' = "render"

\* the pressed keys give a non-zero movement vector
Moving == dot(movementOf(keys, cameraFront), movementOf(keys, cameraFront)) > 0

\* the candidate position for frame time dt
candidateFor(dt) == nextPosOf(cameraPos, movementOf(keys, cameraFront), dt)

rejectedOrTaken(cand) ==
    IF overlapsAnyCube(cand)
    THEN cameraPos'.x = cameraPos.x /\ cameraPos'.z = cameraPos.z
    ELSE cameraPos'.x = cand.x /\ cameraPos'.z = cand.z

restOfTickRuns(v) ==
    /\ cameraPos'.y = v.cameraPos.y
    /\ velocityY' = v.velocityY
    /\ isGrounded' = v.isGrounded

\* C7: when the candidate of a horizontal step overlaps an obstacle (squared
\* distance to its clamped point in the box below r^2) position.x and
\* position.z are both unchanged by the tick and the jump gate, gravity and
\* ground clamp still run; when no obstacle overlaps, x and z become those of
\* the candidate.
C7_StepRejectedWhole ==
    [][(TickStep /\ Moving) =>
          /\ rejectedOrTaken(candidateFor(deltaTime'))
          /\ restOfTickRuns(verticalStage(cameraPos, velocityY, isGrounded, keys,
                                          deltaTime'))]_vars

\* a tick of a grounded, walking player has just had its step rejected
C7_Witness ==
    /\ pc = "render"
    /\ collided
    /\ isGrounded
    /\ deltaTime > 0
    /\ Moving
    /\ overlapsAnyCube(candidateFor(deltaTime))

\* the draw passes and glfwSwapBuffers (the present) are taken in this step
PresentStep == pc = "render" /\ pc' # "render"

\* C11: in every tick, the first included, the input events are drained
\* (glfwPollEvents: mouse callbacks, key state refresh) after dt is sampled and
\* before the same tick's camera update, player simulation, draw passes and
\* present; only quit processing follows present.  In terms of the loop's
\* stages: the step that presents a frame does not lead into the draining of
\* events, which would belong to the time before that frame's simulation.
C11_EventsDrainedBeforeUpdate == [][PresentStep => pc' # "events"]_vars

----------------------------------------------------------------------------
(* SpecAir: jumping and landing in place, from startup *)

MaxAirTime == 60

AirKeySets == { {}, {"SPACE"}, {"W", "S", "SPACE"}, {"ESCAPE"} }

AirCursorPositions == { <<400, 300>> }

NextAir == Step(FrameTimes, MaxAirTime, AirKeySets, AirCursorPositions)

SpecAir == Init /\ [][NextAir]_vars

\* C2: whenever grounded is true, position.y equals groundY + playerHeight
\* and velocityY equals 0.
C2_GroundedAtRest ==
    isGrounded => cameraPos.y = groundLevel + playerHeight /\ velocityY = 0

\* a tick with SPACE held has ended on the ground: the player came down in it
C2_Witness ==
    /\ pc = "render"
    /\ isGrounded
    /\ "SPACE" \in keys
    /\ deltaTime > 0

sameOutcome(r) ==
    /\ cameraPos' = r.cameraPos
    /\ velocityY' = r.velocityY
    /\ isGrounded' = r.isGrounded

\* C5: a tick that starts with grounded = false and SPACE pressed ends with the
\* velocityY, position and grounded of the same tick without SPACE.
C5_SpaceAirborneNoOp ==
    [][(TickStep /\ ~isGrounded /\ "SPACE" \in keys) =>
          sameOutcome(loopBody(current, keys \ {"SPACE"}, deltaTime'))]_vars

\* a tick with SPACE held has ended in the air slower than a jump in that tick
\* would leave it: the tick started in the air
C5_Witness ==
    /\ pc = "render"
    /\ "SPACE" \in keys
    /\ ~isGrounded
    /\ velocityY < applyGravity(jumpSpeed, deltaTime)

\* the state after one tick with no keys and frame time 0
idleTick(s) == loopBody(s, {}, 0)

\* C10: from any reachable state, a second tick with no keys, no mouse event
\* and dt = 0 leaves the state the first such tick produced.
C10_IdleTickIdempotent == idleTick(idleTick(current)) = idleTick(current)

\* a tick with no keys and frame time 0 has just run in mid-air
C10_Witness ==
    /\ pc = "render"
    /\ keys = {}
    /\ deltaTime = 0
    /\ ~isGrounded
    /\ velocityY # 0
    /\ idleTick(current) = current

----------------------------------------------------------------------------
(* SpecLook: mouse look, the cube rotation keys and W+S, from startup *)

MaxLookTime == 6

LookKeySets ==
    { {}, {"W", "S"}, {"W", "S", "SPACE"}, {"Q"}, {"E", "F", "C"}, {"R", "Z"},
      {"ESCAPE"} }

LookCursorPositions ==
    { <<400, 300>>, <<500, 350>>, <<400, 1250>>, <<400, -650>> }

NextLook == Step(FrameTimes, MaxLookTime, LookKeySets, LookCursorPositions)

SpecLook == Init /\ [][NextLook]_vars

\* C3: after any sequence of mouse events camera pitch stays within
\* [-89, +89] degrees.
C3_PitchWithinLimits == -pitchLimit <= pitch /\ pitch <= pitchLimit

\* an event has pushed pitch to the lower limit (no sum of the cursor
\* deltas reaches it unclamped)
C3_Witness == ~firstMouse /\ pitch = -pitchLimit

\* a mouse event is delivered in this step
MouseStep == pc = "events" /\ pc' = "events" /\ keys' = keys

\* the first event leaves yaw and pitch alone; a later one adds 0.1 times the
\* x-delta to yaw; the gate is closed afterwards
gateAndYaw ==
    /\ ~firstMouse'
    /\ IF firstMouse
       THEN yaw' = yaw /\ pitch' = pitch
       ELSE yaw' = yaw + (lastX' - lastX) * sensitivity

\* C4 as stated: the first mouse event leaves yaw and pitch at their startup
\* values; every later event changes yaw by 0.1 times its x-delta and pitch by
\* minus 0.1 times its y-delta; the gate never re-arms.
C4_AsStated ==
    [][/\ MouseStep =>
            /\ gateAndYaw
            /\ ~firstMouse => pitch' = pitch - (lastY' - lastY) * sensitivity
       /\ ~firstMouse => ~firstMouse']_vars

\* C4 amended: as C4, with the pitch of a later event clamped to [-89, +89]
\* after minus 0.1 times the y-delta is added.
C4_FirstEventGate ==
    [][/\ MouseStep =>
            /\ gateAndYaw
            /\ ~firstMouse =>
                  pitch' = clamp(pitch - (lastY' - lastY) * sensitivity,
                                 -pitchLimit, pitchLimit)
       /\ ~firstMouse => ~firstMouse']_vars

\* the second event of the scenario (+100, +50) after a first event elsewhere
C4_Witness ==
    /\ ~firstMouse
    /\ lastX = 500 /\ lastY = 350
    /\ yaw = -900 + 100 /\ pitch = -50

\* C9: in a tick with W and S pressed and neither A nor D, the accumulated
\* movement vector has zero length and position.x and position.z are
\* unchanged by the tick.
C9_OppositeKeysCancel ==
    [][(TickStep /\ {"W", "S"} \subseteq keys /\ "A" \notin keys /\ "D" \notin keys) =>
          /\ ~Moving
          /\ cameraPos'.x = cameraPos.x
          /\ cameraPos'.z = cameraPos.z]_vars

\* a tick with W and S held has run with the camera turned and tilted
C9_Witness ==
    /\ pc = "render"
    /\ {"W", "S"} \subseteq keys
    /\ deltaTime > 0
    /\ yaw # -900
    /\ pitch # 0

\* the matrix product a . b of two column-major matrices acting on column
\* vectors: entry (row r, column c) is the sum over k of a(r, k) * b(k, c)
productEntry(a, b, r, c) ==
    RoundDiv(a[0 * 4 + r + 1] * b[c * 4 + 0 + 1]
               + a[1 * 4 + r + 1] * b[c * 4 + 1 + 1]
               + a[2 * 4 + r + 1] * b[c * 4 + 2 + 1]
               + a[3 * 4 + r + 1] * b[c * 4 + 3 + 1], DirScale)

product(a, b) ==
    [k \in 1..16 |-> productEntry(a, b, (k - 1) % 4, (k - 1) \div 4)]

\* T(pos_i) . Ry(ry + 0.6 i) . Rx(rx) . Rz(rz)
statedModelMatrix(i, rot) ==
    product(translate(cubePositions[i + 1]),
            product(rotateY(rot.y + i * cubeYawStep),
                    product(rotateX(rot.x), rotateZ(rot.z))))

\* the translation entries m[12], m[13], m[14] of m are the position pos
translationIs(m, pos) ==
    /\ m[12 + 1] = lengthEntry(pos.x)
    /\ m[13 + 1] = lengthEntry(pos.y)
    /\ m[14 + 1] = lengthEntry(pos.z)

\* C15: for every cube index i and every cube rotation, the model matrix
\* uploaded for cube i in the render stage equals
\* T(pos_i) . Ry(ry + 0.6 i) . Rx(rx) . Rz(rz) in the column-major,
\* column-vector convention, and its translation entries m[12], m[13], m[14]
\* equal pos_i, the centre of that cube's collision box.
C15_ModelMatrix ==
    pc = "render" =>
        \A i \in 0..(Len(cubePositions) - 1) :
            /\ modelMatrix(i, cubeRotation) = statedModelMatrix(i, cubeRotation)
            /\ translationIs(modelMatrix(i, cubeRotation), cubePositions[i + 1])

----------------------------------------------------------------------------
(* SpecJump: grounded at the startup position, one tick with SPACE pressed,  *)
(* then 120 ticks with no keys, every frame time 1/60 s                      *)

JumpRunTicks == 1 + 120

\* the state after a first tick of frame time 0 and a SPACE press
InitJump == Startup({"SPACE"}, TRUE)

NextJump ==
    \/ lastFrame < JumpRunTicks /\ Tick(lastFrame + 1)
    \/ RenderFrame
    \/ lastFrame = 1 /\ KeyEvent({})
    \/ keys = {} /\ PollEventsReturn

SpecJump == InitJump /\ [][NextJump]_vars

restHeight == groundLevel + playerHeight

\* 0.6 + 8^2 / (2 * 20) = 2.2
analyticPeak == restHeight + (jumpSpeed * jumpSpeed) \div (2 * (-gravity))

\* C6: the jump tick lifts position.y above 0.6; position.y never exceeds
\* 2.2; it rises only while velocityY is positive and velocityY falls in
\* every tick in the air, so the rise is followed by the fall; the run ends
\* with position.y = 0.6, grounded and velocityY = 0; once landed the player
\* stays landed.
C6_JumpArc ==
    /\ [](cameraPos.y <= analyticPeak)
    /\ []((pc = "render" /\ lastFrame = 1) => (cameraPos.y > restHeight /\ ~isGrounded))
    /\ []((pc = "render" /\ lastFrame = JumpRunTicks) =>
             (cameraPos.y = restHeight /\ isGrounded /\ velocityY = 0))
    /\ [][(TickStep /\ lastFrame >= 1) =>
             /\ cameraPos'.y > cameraPos.y => velocityY' > 0
             /\ ~isGrounded' => velocityY' < velocityY
             /\ isGrounded => (isGrounded' /\ cameraPos'.y = restHeight)]_vars

\* the last tick of the run has ended
C6_Witness ==
    /\ pc = "render"
    /\ lastFrame = JumpRunTicks
    /\ keys = {}
    /\ isGrounded

----------------------------------------------------------------------------
(* SpecWalk: grounded at the startup position facing -Z, W held for 120      *)
(* ticks, every frame time 1/60 s                                            *)

WalkRunTicks == 2 * 60

\* the state after a first tick of frame time 0 and a W press
InitWalk == Startup({"W"}, TRUE)

NextWalk ==
    \/ lastFrame < WalkRunTicks /\ Tick(lastFrame + 1)
    \/ RenderFrame
    \/ PollEventsReturn

SpecWalk == InitWalk /\ [][NextWalk]_vars

\* 0 + 0.6 + 0.35 = 0.95
stopLine == cubePositions[1].z + cubeHalfExtent + cameraRadius

\* C8: holding W moves the player toward the cube at the origin in every tick
\* whose candidate does not make the sphere intersect a box; from the first
\* tick whose candidate does, position stops changing; position.z is at
\* least 0.95 throughout and the run ends stopped.
C8_BlockedAtCube ==
    /\ [](cameraPos.z >= stopLine /\ cameraPos.x = 0)
    /\ []((pc = "render" /\ lastFrame = WalkRunTicks) => overlapsAnyCube(candidateFor(1)))
    /\ [][TickStep =>
             IF overlapsAnyCube(candidateFor(deltaTime'))
             THEN cameraPos' = cameraPos
             ELSE cameraPos'.z < cameraPos.z /\ cameraPos'.y = cameraPos.y]_vars

\* the last tick of the run has been rejected at the stop line
C8_Witness ==
    /\ pc = "render"
    /\ lastFrame = WalkRunTicks
    /\ collided
    /\ cameraPos = Vec3(0, restHeight, stopLine)

----------------------------------------------------------------------------
(* SpecMain: the whole of main, from its entry to its return: the          *)
(* initialisation with every outcome of its steps, a few passes of the     *)
(* loop with the Escape key, the close request and framebuffer size        *)
(* changes, and the shutdown.  The thread of main keeps running, and       *)
(* glfwPollEvents returns once the queued events are processed.            *)

MaxMainTime == 2

MainFrameTimes == 0..1

MainKeySets == { {}, {"ESCAPE"} }

MainCursorPositions == { <<400, 300>> }

FramebufferSizes == { <<1600, 900>>, <<900, 1600>>, <<0, 0>> }

NextMain ==
    \/ \E ok \in BOOLEAN : GlfwInit(ok)
    \/ \E ok \in BOOLEAN : CreateWindow(ok)
    \/ \E ok \in BOOLEAN : GlewInit(ok)
    \/ \E name \in {"program", "skyboxProgram"}, vsOk, fsOk, linkOk \in BOOLEAN :
           Generate(name, vsOk, fsOk, linkOk)
    \/ \E i \in 1..Len(constructionOrder) :
           /\ ~isProgram(constructionOrder[i])
           /\ Generate(constructionOrder[i], TRUE, TRUE, TRUE)
    \/ Step(MainFrameTimes, MaxMainTime, MainKeySets, MainCursorPositions)
    \/ CloseEvent
    \/ \E size \in FramebufferSizes : FramebufferSizeEvent(size[1], size[2])
    \/ DeleteNext
    \/ Terminate

SpecMain ==
    /\ ProgramStart
    /\ [][NextMain]_vars
    /\ WF_vars(RenderFrame)
    /\ WF_vars(PollEventsReturn)
    /\ WF_vars(LoopExit)
    /\ WF_vars(DeleteNext)
    /\ WF_vars(Terminate)

\* the loop body is entered in this step
TickStart == pc = "frame" /\ pc' = "render"

\* C12: once Escape is observed pressed (by processInput) or the window's
\* close request is raised, the request is never withdrawn, no further tick
\* starts, the tick in progress runs to its end (the loop is left from the
\* loop test only), main returns, and the value it returns is 0.
C12_QuitAtTickBoundary ==
    /\ [][(TickStart /\ "ESCAPE" \in keys) => windowShouldClose']_vars
    /\ [][windowShouldClose => windowShouldClose']_vars
    /\ [][windowShouldClose => ~TickStart]_vars
    /\ [][(pc # "exit" /\ pc' = "exit") => (pc = "frame" /\ windowShouldClose)]_vars
    /\ []((windowShouldClose /\ mainReturn # <<>>) => mainReturn = <<0>>)
    /\ windowShouldClose ~> (mainReturn = <<0>>)

\* main has returned after a pass that saw Escape pressed
C12_Witness ==
    /\ mainReturn = <<0>>
    /\ windowShouldClose
    /\ "ESCAPE" \in keys
    /\ pc = "done"

\* the program is in the frame loop
InLoop == pc \in {"frame", "render", "events"}

\* C13: every init failure is fatal: after a failure of window creation, of
\* the extension loading, of a shader compilation or of a program link (the
\* last three leave a diagnostic on std::cerr) the frame loop never runs and
\* main does not return 0; the loop runs only after all init steps succeeded.
C13_InitFailureFatal ==
    /\ InLoop => (window = "open" /\ cerr = <<>>)
    /\ mainReturn = <<0>> => cerr = <<>>

Reverse(seq) == [i \in 1..Len(seq) |-> seq[Len(seq) + 1 - i]]

isPrefix(a, b) == Len(a) <= Len(b) /\ a = SubSeq(b, 1, Len(a))

Range(seq) == { seq[i] : i \in 1..Len(seq) }

\* the position of name in seq
indexOf(seq, name) == CHOOSE i \in 1..Len(seq) : seq[i] = name

\* C14: on shutdown the GL objects (vertex arrays and buffers, programs,
\* textures) are released in the reverse of the order of their construction,
\* and every one of them is released before the window is destroyed.
C14_ReverseConstructionOrder ==
    /\ isPrefix(released, Reverse(constructionOrder))
    /\ window = "destroyed" => glObjects = <<>>

\* what the shutdown does keep: every GL object constructed at init is
\* released exactly once, while the window is still open, and all of them have
\* been released when the window is destroyed; the vertex arrays and buffers
\* go first, then the two programs in the order of their construction, then
\* the textures.
ReleasedBeforeWindowDestroyed ==
    /\ window = "destroyed" => glObjects = <<>>
    /\ (window = "destroyed" /\ mainReturn = <<0>>) =>
           Range(released) = Range(constructionOrder)
    /\ Cardinality(Range(released)) = Len(released)
    /\ Range(released) \cap Range(glObjects) = {}
    /\ released # <<>> => (window = "open" \/ mainReturn = <<0>>)
    /\ \A i \in 1..Len(released) : \A j \in 1..Len(released) :
           (i < j /\ isProgram(released[i]) /\ isProgram(released[j])) =>
               indexOf(constructionOrder, released[i])
                   < indexOf(constructionOrder, released[j])
    /\ \A i \in 1..Len(released) : \A j \in 1..Len(released) :
           (i < j /\ isProgram(released[i])) =>
               released[j] \in {"skyboxProgram", "texture", "skyboxTexture"}

\* the window has been destroyed after all the GL objects were released
C14_Witness ==
    /\ window = "destroyed"
    /\ mainReturn = <<0>>
    /\ Len(released) = Len(constructionOrder)

----------------------------------------------------------------------------
(* SpecFall: from startup, frame times from zero to two seconds (the first *)
(* frame time is the whole time since startup), with walking, jumping and  *)
(* mouse input                                                             *)

MaxFallTime == 150

LongFrame == 2 * TimeScale

FallFrameTimes == { 0, 10, LongFrame }

FallKeySets == { {}, {"SPACE"}, {"W", "SPACE"}, {"ESCAPE"} }

FallCursorPositions == { <<400, 300>>, <<400, 1250>> }

NextFall == Step(FallFrameTimes, MaxFallTime, FallKeySets, FallCursorPositions)

SpecFall == Init /\ [][NextFall]_vars

\* C16: at the end of every tick, for any key and mouse input and any frame
\* time, however large, the camera height is at least groundLevel +
\* playerHeight (0.6): the feet are never below the ground plane.  (The other
\* steps of the loop leave the height alone, so it holds in every state.)
C16_NeverBelowGround == cameraPos.y >= groundLevel + playerHeight

\* a tick of two seconds with SPACE held has just ended: the integrated
\* height was far below the ground and the clamp has put the player on it
C16_Witness ==
    /\ pc = "render"
    /\ deltaTime = LongFrame
    /\ "SPACE" \in keys
    /\ isGrounded
    /\ cameraPos.y = groundLevel + playerHeight

----------------------------------------------------------------------------
(* The render stage's calls of perspective and lookAt *)

\* a float is greater than zero (a NaN is not, plus infinity is)
positive(a) == ~a.nan /\ (a.inf \/ a.value > 0)

\* pi in 1/1000 rad
piRadians == 3142

\* aspect > 0, far > near > 0, fov in (0, pi)
perspectivePrecondition(fov, aspect, near, far) ==
    /\ positive(aspect)
    /\ far > near
    /\ near > 0
    /\ fov > 0
    /\ fov < piRadians

zeroVector == Vec3(0, 0, 0)

\* center # eye, and up not parallel to center - eye
lookAtPrecondition(f, up) == f # zeroVector /\ cross(f, up) # zeroVector

\* the lookAt call of every rendered frame meets its precondition
LookAtCallsValid ==
    pc = "render" =>
        lookAtPrecondition(lookDirection(cameraPos, cameraFront), cameraUp)

\* C17: every per-tick call of perspective satisfies its precondition
\* (aspect > 0, far 140 > near 0.1 > 0, fov 45 degrees in (0, pi)) for every
\* framebuffer size (W, H), W, H >= 0, that the window reports, and every
\* per-tick call of lookAt has center # eye and up not parallel to
\* center - eye.
C17_RenderPreconditions ==
    pc = "render" =>
        /\ perspectivePrecondition(fovRadians,
                                   aspectOf(framebuffer[1], framebuffer[2]),
                                   nearZ, farZ)
        /\ lookAtPrecondition(lookDirection(cameraPos, cameraFront), cameraUp)

====
